---- MODULE Spec2Model ----
(***************************************************************************)
(* RepoDoctor: the analyze pipeline (backend/main.py), the review          *)
(* requester (backend/ai_review.py) and the issue publisher                *)
(* (backend/github_issues.py).                                             *)
(*                                                                         *)
(* Python str values are TLA+ strings; TLC evaluates Len, SubSeq and \o on *)
(* them, so prefix tests, substring tests, strip, split and replace are    *)
(* computed character by character as the code computes them.              *)
(***************************************************************************)
EXTENDS Integers, Sequences, FiniteSets, TLC

VARIABLES
    p_in,        \* parse_repo: the components the URL was written from
    p_url,       \* parse_repo: the URL string handed to parse_repo
    p_res,       \* parse_repo: its outcome, NotYet before the call
    w_in,        \* walk_repo_summary: root, tree and max_files
    w_res,       \* walk_repo_summary: (files, key_contents), NotYet before
    h_in,        \* basic_heuristics: listing, key files and the toggled name
    h_res,       \* basic_heuristics: the two outputs, NotYet before
    pub,         \* create_issues: the request and its progress
    tracker,     \* the issue tracker: calls received, issues it holds
    api_key,     \* os.getenv("OPENAI_API_KEY")
    tmpfs,       \* the temp directory: scratch name -> what is on disk
    rq           \* analyze_repo: one record per request

varsParse == <<p_in, p_url, p_res>>
varsWalk  == <<w_in, w_res>>
varsHeur  == <<h_in, h_res>>
varsPub   == <<pub, tracker>>
varsAn    == <<api_key, tmpfs, rq>>
vars      == <<p_in, p_url, p_res, w_in, w_res, h_in, h_res, pub, tracker,
               api_key, tmpfs, rq>>

None == "<None>"
\* a result variable before its operation has run
NotYet == [done |-> FALSE]

Min(a, b) == IF a <= b THEN a ELSE b

(***************************************************************************)
(* Python str operations.                                                  *)
(***************************************************************************)
CharAt(s, i) == SubSeq(s, i, i)

\* s[a:] for a 1-based first index
From(s, a) == SubSeq(s, a, Len(s))

\* s.startswith(p)
StartsWith(s, p) == Len(s) >= Len(p) /\ SubSeq(s, 1, Len(p)) = p

\* s.endswith(p)
EndsWith(s, p) == Len(s) >= Len(p) /\ SubSeq(s, Len(s) - Len(p) + 1, Len(s)) = p

\* sub in s
Contains(s, sub) ==
    \E i \in 1..(Len(s) - Len(sub) + 1) : SubSeq(s, i, i + Len(sub) - 1) = sub

\* the 1-based index of the first character of s that is in cs, 0 if none
FirstOf(s, cs) ==
    LET hits == {i \in 1..Len(s) : CharAt(s, i) \in cs}
    IN  IF hits = {} THEN 0 ELSE CHOOSE i \in hits : \A j \in hits : i <= j

Whitespace == {" ", "\t", "\n", "\r", "\f"}

RECURSIVE LStripChars(_, _)
LStripChars(s, cs) ==
    IF Len(s) > 0 /\ CharAt(s, 1) \in cs THEN LStripChars(From(s, 2), cs) ELSE s

RECURSIVE RStripChars(_, _)
RStripChars(s, cs) ==
    IF Len(s) > 0 /\ CharAt(s, Len(s)) \in cs
    THEN RStripChars(SubSeq(s, 1, Len(s) - 1), cs)
    ELSE s

\* s.strip(chars)
StripChars(s, cs) == RStripChars(LStripChars(s, cs), cs)

\* s.strip()
Strip(s) == StripChars(s, Whitespace)

Upper == <<"A", "B", "C", "D", "E", "F", "G", "H", "I", "J", "K", "L", "M",
           "N", "O", "P", "Q", "R", "S", "T", "U", "V", "W", "X", "Y", "Z">>
LowerOf == <<"a", "b", "c", "d", "e", "f", "g", "h", "i", "j", "k", "l", "m",
             "n", "o", "p", "q", "r", "s", "t", "u", "v", "w", "x", "y", "z">>

UpperSet == {"A", "B", "C", "D", "E", "F", "G", "H", "I", "J", "K", "L", "M",
             "N", "O", "P", "Q", "R", "S", "T", "U", "V", "W", "X", "Y", "Z"}

LowerChar(c) ==
    IF c \in UpperSet
    THEN LowerOf[CHOOSE i \in 1..26 : Upper[i] = c]
    ELSE c

\* s.lower()
RECURSIVE Lower(_)
Lower(s) == IF Len(s) = 0 THEN "" ELSE LowerChar(CharAt(s, 1)) \o Lower(From(s, 2))

\* s.split(sep) for a one-character sep: empty pieces are kept
RECURSIVE Split(_, _)
Split(s, sep) ==
    LET i == FirstOf(s, {sep})
    IN  IF i = 0 THEN <<s>>
        ELSE <<SubSeq(s, 1, i - 1)>> \o Split(From(s, i + 1), sep)

\* s.replace(old, new) for a one-character old
RECURSIVE Replace(_, _, _)
Replace(s, old, new) ==
    IF Len(s) = 0 THEN ""
    ELSE (IF CharAt(s, 1) = old THEN new ELSE CharAt(s, 1))
         \o Replace(From(s, 2), old, new)

\* [x for x in seq if x]
RECURSIVE NonEmpty(_)
NonEmpty(seq) ==
    IF seq = <<>> THEN <<>>
    ELSE (IF Head(seq) = "" THEN <<>> ELSE <<Head(seq)>>) \o NonEmpty(Tail(seq))

\* sep.join(seq)
RECURSIVE Join(_, _)
Join(seq, sep) ==
    IF seq = <<>> THEN ""
    ELSE IF Len(seq) = 1 THEN seq[1]
    ELSE seq[1] \o sep \o Join(Tail(seq), sep)

\* s repeated n times
RECURSIVE Repeat(_, _)
Repeat(s, n) ==
    IF n = 0 THEN ""
    ELSE IF n % 2 = 0 THEN LET h == Repeat(s, n \div 2) IN h \o h
    ELSE s \o Repeat(s, n - 1)

(***************************************************************************)
(* urllib.parse.urlparse, as far as scheme, netloc and path go: the scheme *)
(* is what precedes the first ':' when it is made of scheme characters,    *)
(* the netloc follows '//' up to the first of '/', '?', '#', and the path  *)
(* is the rest up to the first '#' or '?'.                                 *)
(***************************************************************************)
Letters == {Upper[i] : i \in 1..26} \cup {LowerOf[i] : i \in 1..26}
SchemeChars == Letters \cup {"0", "1", "2", "3", "4", "5", "6", "7", "8", "9",
                             "+", "-", "."}

UpTo(s, cs) ==
    LET i == FirstOf(s, cs) IN IF i = 0 THEN s ELSE SubSeq(s, 1, i - 1)

urlparse(url) ==
    LET c == FirstOf(url, {":"})
        hasScheme == /\ c > 1
                     /\ CharAt(url, 1) \in Letters
                     /\ \A i \in 1..(c - 1) : CharAt(url, i) \in SchemeChars
        scheme == IF hasScheme THEN Lower(SubSeq(url, 1, c - 1)) ELSE ""
        rest1 == IF hasScheme THEN From(url, c + 1) ELSE url
        hasNet == StartsWith(rest1, "//")
        afterSl == From(rest1, 3)
        netloc == IF hasNet THEN UpTo(afterSl, {"/", "?", "#"}) ELSE ""
        rest2 == IF hasNet THEN From(afterSl, Len(netloc) + 1) ELSE rest1
        path == UpTo(UpTo(rest2, {"#"}), {"?"})
    IN  [scheme |-> scheme, netloc |-> netloc, path |-> path]

\* re.sub(r"\.git$", "", s)
StripGitSuffix(s) ==
    IF EndsWith(s, ".git") THEN SubSeq(s, 1, Len(s) - 4) ELSE s

\* parse_repo with the ".git" suffix left on the name
parse_repo_keep_git(repo_url) ==
    LET u == urlparse(Strip(repo_url))
        parts == NonEmpty(Split(u.path, "/"))
    IN  IF Lower(u.netloc) # "github.com"
        THEN [ok |-> FALSE, error |-> "Repo URL must be a github.com URL"]
        ELSE IF Len(parts) < 2
        THEN [ok |-> FALSE,
              error |-> "Repo URL must look like https://github.com/owner/repo"]
        ELSE [ok |-> TRUE, owner |-> parts[1], repo |-> parts[2]]

parse_repo(repo_url) ==
    LET u == urlparse(Strip(repo_url))
        parts == NonEmpty(Split(u.path, "/"))
    IN  IF Lower(u.netloc) # "github.com"
        THEN [ok |-> FALSE, error |-> "Repo URL must be a github.com URL"]
        ELSE IF Len(parts) < 2
        THEN [ok |-> FALSE,
              error |-> "Repo URL must look like https://github.com/owner/repo"]
        ELSE [ok |-> TRUE, owner |-> parts[1], repo |-> StripGitSuffix(parts[2])]

safe_repo_name(repo_url) ==
    LET s == Replace(StripChars(urlparse(repo_url).path, {"/"}), "/", "__")
    IN  IF s = "" THEN "repo" ELSE s

(***************************************************************************)
(* A directory tree is the sequence of directories in the order os.walk    *)
(* yields them (top-down, the root first): rel is the directory's path     *)
(* below the root ("." for the root), dirs its subdirectory names, files   *)
(* its files.  A file is size copies of the character fill; an unreadable  *)
(* file makes open() raise.                                                *)
(***************************************************************************)
File(name, size) == [name |-> name, fill |-> "x", size |-> size, readable |-> TRUE]
Unreadable(name) == [name |-> name, fill |-> "x", size |-> 9, readable |-> FALSE]
Dir(rel, dirs, files) == [rel |-> rel, dirs |-> dirs, files |-> files]

Content(f) == Repeat(f.fill, f.size)

MaxChars == 8000
DefaultMaxFiles == 200
DIRECTORY_PRESENT == "DIRECTORY_PRESENT"

\* read_text_file with f.read() in place of f.read(max_chars)
read_text_file_unbounded(f, max_chars) ==
    IF f.readable THEN Content(f) ELSE ""

read_text_file(f, max_chars) ==
    IF f.readable
    THEN SubSeq(Content(f), 1, Min(max_chars, f.size))
    ELSE ""

skip == <<".git", "node_modules", "__pycache__", ".venv", "dist", "build">>
important == <<"README.md", "LICENSE", ".env.example", "pyproject.toml",
               "requirements.txt", "Dockerfile", ".github", "SECURITY.md">>

SeqRange(seq) == {seq[i] : i \in 1..Len(seq)}

\* the dirpath os.walk(root) yields for a directory of the tree
WalkDirpath(root, d) == IF d.rel = "." THEN root ELSE root \o "/" \o d.rel

\* os.path.relpath(dirpath, root) for a dirpath at or below root
relpath(dirpath, root) ==
    IF dirpath = root THEN "." ELSE From(dirpath, Len(root) + 2)

\* the inner loop over one directory's filenames, with its break
RECURSIVE AppendFiles(_, _, _, _)
AppendFiles(files, rel, fns, max_files) ==
    IF fns = <<>> \/ Len(files) >= max_files THEN files
    ELSE AppendFiles(Append(files, rel \o "/" \o Head(fns).name), rel,
                     Tail(fns), max_files)

\* the loop over os.walk(root)
RECURSIVE WalkFiles(_, _, _, _)
WalkFiles(root, tree, files, max_files) ==
    IF tree = <<>> THEN files
    ELSE LET dirpath == WalkDirpath(root, Head(tree))
         IN  IF \E i \in 1..Len(skip) : Contains(dirpath, skip[i])
             THEN WalkFiles(root, Tail(tree), files, max_files)
             ELSE WalkFiles(root, Tail(tree),
                            AppendFiles(files, relpath(dirpath, root),
                                        Head(tree).files, max_files),
                            max_files)

\* os.path.exists / os.path.isdir of os.path.join(root, name)
TopFile(tree, name) == CHOOSE f \in SeqRange(tree[1].files) : f.name = name
IsTopFile(tree, name) == \E f \in SeqRange(tree[1].files) : f.name = name
IsTopDir(tree, name) == name \in SeqRange(tree[1].dirs)

\* the dict key_contents: a function on the names found
KeyContents(tree) ==
    [name \in {n \in SeqRange(important) : IsTopDir(tree, n) \/ IsTopFile(tree, n)}
        |-> IF IsTopDir(tree, name) THEN DIRECTORY_PRESENT
            ELSE read_text_file(TopFile(tree, name), MaxChars)]

\* files[:max_files] for max_files >= 0
Slice(seq, n) == SubSeq(seq, 1, Min(n, Len(seq)))

walk_repo_summary(root, tree, max_files) ==
    [files |-> Slice(WalkFiles(root, tree, <<>>, max_files), max_files),
     key_contents |-> KeyContents(tree)]

\* list(key_contents.keys()): the names in insertion order
RECURSIVE KeysInOrder(_, _)
KeysInOrder(kc, names) ==
    IF names = <<>> THEN <<>>
    ELSE (IF Head(names) \in DOMAIN kc THEN <<Head(names)>> ELSE <<>>)
         \o KeysInOrder(kc, Tail(names))

(***************************************************************************)
(* basic_heuristics: six independent rules, each appending to one list.    *)
(***************************************************************************)
When(cond, msg) == IF cond THEN <<msg>> ELSE <<>>

MsgReadme == "Add a README.md with setup and usage instructions."
MsgEnv == "Add a .env.example for environment variables."
MsgDocker == "Add a Dockerfile for reproducible builds."
MsgLicense == "No LICENSE file found."
MsgTests == "No obvious tests detected."
MsgLarge == "Large repo: consider adding docs/architecture.md."

LargeRepoFiles == 180

\* any("test" in f.lower() for f in files)
AnyTest(files) == \E i \in 1..Len(files) : Contains(Lower(files[i]), "test")

\* the Dockerfile rule written as an elif of the .env.example rule
basic_heuristics_elif(files, key_contents) ==
    [findings  |-> When(Len(files) > LargeRepoFiles, MsgLarge),
     quickwins |-> When("README.md" \notin DOMAIN key_contents, MsgReadme)
                   \o (IF ".env.example" \notin DOMAIN key_contents
                       THEN <<MsgEnv>>
                       ELSE When("Dockerfile" \notin DOMAIN key_contents, MsgDocker)),
     risks     |-> When("LICENSE" \notin DOMAIN key_contents, MsgLicense)
                   \o When(~AnyTest(files), MsgTests)]

basic_heuristics(files, key_contents) ==
    [findings  |-> When(Len(files) > LargeRepoFiles, MsgLarge),
     quickwins |-> When("README.md" \notin DOMAIN key_contents, MsgReadme)
                   \o When(".env.example" \notin DOMAIN key_contents, MsgEnv)
                   \o When("Dockerfile" \notin DOMAIN key_contents, MsgDocker),
     risks     |-> When("LICENSE" \notin DOMAIN key_contents, MsgLicense)
                   \o When(~AnyTest(files), MsgTests)]

(***************************************************************************)
(* Values the variables of one part keep while another part runs.          *)
(***************************************************************************)
IdleParse == p_in = None /\ p_url = None /\ p_res = NotYet
IdleWalk  == w_in = None /\ w_res = NotYet
IdleHeur  == h_in = None /\ h_res = NotYet
IdlePub   == pub = None /\ tracker = None
IdleAn    == api_key = None /\ tmpfs = None /\ rq = None

(***************************************************************************)
(* parse_repo on URLs written from their components.                       *)
(***************************************************************************)
MaxSegs == 3

Schemes == {"https://", "http://", ""}
Hosts == {"github.com", "GitHub.com", "gitlab.com", "github.com:443",
          "api.github.com"}
SegNames == {"octo", "hello", "x.git"}

SeqsUpTo(S, n) == UNION {[1..k -> S] : k \in 0..n}

UrlParts ==
    [scheme : Schemes, host : Hosts, segs : SeqsUpTo(SegNames, MaxSegs),
     git : BOOLEAN, slash : BOOLEAN, pad : {"", " "}]

\* the URL a user writes for these components
BuildUrl(c) ==
    c.pad \o c.scheme \o c.host \o "/" \o Join(c.segs, "/")
    \o (IF c.git /\ c.segs # <<>> THEN ".git" ELSE "")
    \o (IF c.slash THEN "/" ELSE "")
    \o c.pad

InitParse ==
    /\ p_in \in UrlParts
    /\ p_url = BuildUrl(p_in)
    /\ p_res = NotYet
    /\ IdleWalk /\ IdleHeur /\ IdlePub /\ IdleAn

ParseRepo ==
    /\ ~p_res.done
    /\ p_res' = [done |-> TRUE, out |-> parse_repo(p_url)]
    /\ UNCHANGED <<p_in, p_url, varsWalk, varsHeur, varsPub, varsAn>>

NextParse == ParseRepo

SpecParse == InitParse /\ [][NextParse]_vars

(***************************************************************************)
(* walk_repo_summary on directory trees.                                   *)
(***************************************************************************)
MaxFilesArg == 3

TopFileNames == {"README.md", "LICENSE", "Dockerfile", "main.py"}
TopDirNames == {".github", "tests", "build"}
\* a file size; -1 stands for a file that cannot be opened
FileKinds == {-1, 0, 8000, 8001, 12000}
WalkRoots == {"/tmp/repodoctor_a1b2c3d4/octo__hello", "/srv/checkout"}

MkFile(name, kind) == IF kind = -1 THEN Unreadable(name) ELSE File(name, kind)

\* the names of S that are in the sequence order, in that order
RECURSIVE Pick(_, _)
Pick(order, S) ==
    IF order = <<>> THEN <<>>
    ELSE (IF Head(order) \in S THEN <<Head(order)>> ELSE <<>>)
         \o Pick(Tail(order), S)

SubDirFiles(d) ==
    IF d = ".github" THEN <<File("dependabot.yml", 40)>>
    ELSE IF d = "tests" THEN <<File("test_main.py", 300), File("conftest.py", 20)>>
    ELSE <<File("out.js", 5000)>>

MkTree(fileNames, dirNames, kind) ==
    LET fs == Pick(<<"README.md", "LICENSE", "Dockerfile", "main.py">>, fileNames)
        ds == Pick(<<".github", "tests", "build">>, dirNames)
    IN  <<Dir(".", ds, [i \in 1..Len(fs) |-> MkFile(fs[i], kind)])>>
        \o [i \in 1..Len(ds) |-> Dir(ds[i], <<>>, SubDirFiles(ds[i]))]

InitWalk ==
    /\ \E fns \in SUBSET TopFileNames, dns \in SUBSET TopDirNames,
          kind \in FileKinds, root \in WalkRoots, mf \in 0..MaxFilesArg :
            w_in = [root |-> root, tree |-> MkTree(fns, dns, kind),
                    kind |-> kind, max_files |-> mf]
    /\ w_res = NotYet
    /\ IdleParse /\ IdleHeur /\ IdlePub /\ IdleAn

WalkRepoSummary ==
    /\ ~w_res.done
    /\ w_res' = [done |-> TRUE,
                 out |-> walk_repo_summary(w_in.root, w_in.tree, w_in.max_files)]
    /\ UNCHANGED <<w_in, varsParse, varsHeur, varsPub, varsAn>>

NextWalk == WalkRepoSummary

SpecWalk == InitWalk /\ [][NextWalk]_vars

(***************************************************************************)
(* basic_heuristics on two evidence sets that differ in one key file.      *)
(***************************************************************************)
NFiles(n) == [i \in 1..n |-> "f" \o ToString(i)]

Listings == {<<>>, <<"./main.py">>, <<"./main.py", "Tests/Test_App.py">>,
             NFiles(LargeRepoFiles), NFiles(LargeRepoFiles + 1)}

KeyFilesOf(S) ==
    [n \in S |-> IF n = ".github" THEN DIRECTORY_PRESENT ELSE "text of " \o n]

Toggle(S, n) == IF n \in S THEN S \ {n} ELSE S \cup {n}

InitHeur ==
    /\ \E fl \in Listings, S \in SUBSET SeqRange(important),
          n \in SeqRange(important) :
            h_in = [files |-> fl, name |-> n,
                    kc1 |-> KeyFilesOf(S), kc2 |-> KeyFilesOf(Toggle(S, n))]
    /\ h_res = NotYet
    /\ IdleParse /\ IdleWalk /\ IdlePub /\ IdleAn

BasicHeuristics ==
    /\ ~h_res.done
    /\ h_res' = [done |-> TRUE,
                 a |-> basic_heuristics(h_in.files, h_in.kc1),
                 b |-> basic_heuristics(h_in.files, h_in.kc2)]
    /\ UNCHANGED <<h_in, varsParse, varsWalk, varsPub, varsAn>>

NextHeur == BasicHeuristics

SpecHeur == InitHeur /\ [][NextHeur]_vars

(***************************************************************************)
(* create_issues: parse the URL, then one tracker call per issue of the    *)
(* batch; an exception ends the request where it is raised.                *)
(***************************************************************************)
MaxIssues == 7
BatchSize == 5

IssueKeys == {"title", "severity", "evidence", "fix"}
Severities == <<"critical", "high", "medium", "low">>

\* the i-th issue record of a request
Issue(i) ==
    [title |-> "Issue " \o ToString(i),
     severity |-> Severities[((i - 1) % 4) + 1],
     evidence |-> "file" \o ToString(i) \o ".py",
     fix |-> "edit " \o ToString(i)]

\* the same record without its "fix" key
IssueNoFix(i) == [k \in IssueKeys \ {"fix"} |-> Issue(i)[k]]

PubUrls == {"https://github.com/octo/hello", "https://github.com/octo/hello.git",
            "https://github.com/octo"}

\* what the tracker answers to one POST
Responses == {[kind |-> "response", status |-> 201],
              [kind |-> "response", status |-> 403],
              [kind |-> "timeout", status |-> 0]}

\* req.issues with no cut
Batch_all(issues) == issues

\* req.issues[:5]
Batch(issues) == SubSeq(issues, 1, Min(BatchSize, Len(issues)))

IssueBody(it) ==
    "**Severity:** " \o it["severity"] \o "\n\n"
    \o "**Evidence:**\n" \o it["evidence"] \o "\n\n"
    \o "**Suggested fix:**\n" \o it["fix"] \o "\n\n"
    \o "_Created by RepoDoctor_"

IssueApiUrl(owner, repo) ==
    "https://api.github.com/repos/" \o owner \o "/" \o repo \o "/issues"

HtmlUrl(owner, repo, n) ==
    "https://github.com/" \o owner \o "/" \o repo \o "/issues/" \o ToString(n)

InitPub ==
    /\ \E n \in 0..MaxIssues, bad \in 0..MaxIssues, url \in PubUrls :
          /\ bad <= n
          /\ pub = [pc |-> "start", repo_url |-> url, github_token |-> " tok ",
                    issues |-> [i \in 1..n |-> IF i = bad THEN IssueNoFix(i)
                                                ELSE Issue(i)],
                    owner |-> None, repo |-> None, i |-> 0,
                    created |-> <<>>, error |-> None]
    /\ tracker = [calls |-> <<>>, issues |-> <<>>]
    /\ IdleParse /\ IdleWalk /\ IdleHeur /\ IdleAn

\* owner, repo = parse_repo(req.repo_url)
PubParse ==
    /\ pub.pc = "start"
    /\ LET r == parse_repo(pub.repo_url)
       IN  pub' = IF r.ok
                  THEN [pub EXCEPT !.pc = "loop", !.owner = r.owner,
                                   !.repo = r.repo, !.i = 1]
                  ELSE [pub EXCEPT !.pc = "raised", !.error = r.error]
    /\ UNCHANGED <<tracker, varsParse, varsWalk, varsHeur, varsAn>>

\* one iteration of the loop whose record lacks a key: KeyError before the call
PubKeyError ==
    /\ pub.pc = "loop"
    /\ pub.i <= Len(Batch(pub.issues))
    /\ ~(IssueKeys \subseteq DOMAIN pub.issues[pub.i])
    /\ pub' = [pub EXCEPT !.pc = "raised", !.error = "KeyError"]
    /\ UNCHANGED <<tracker, varsParse, varsWalk, varsHeur, varsAn>>

\* one iteration of the loop: build the body, call create_issue, append
PubCreate ==
    /\ pub.pc = "loop"
    /\ pub.i <= Len(Batch(pub.issues))
    /\ IssueKeys \subseteq DOMAIN pub.issues[pub.i]
    /\ \E resp \in Responses :
          LET it == pub.issues[pub.i]
              call == [url |-> IssueApiUrl(pub.owner, pub.repo),
                       token |-> Strip(pub.github_token),
                       title |-> it["title"], body |-> IssueBody(it),
                       answer |-> resp]
              n == Len(tracker.issues) + 1
          IN  IF resp.kind = "response" /\ resp.status < 400
              THEN /\ tracker' = [calls |-> Append(tracker.calls, call),
                                  issues |-> Append(tracker.issues,
                                                    [title |-> call.title,
                                                     body |-> call.body])]
                   /\ pub' = [pub EXCEPT
                                !.created = Append(@, HtmlUrl(pub.owner, pub.repo, n)),
                                !.i = @ + 1]
              ELSE /\ tracker' = [tracker EXCEPT !.calls = Append(@, call)]
                   /\ pub' = [pub EXCEPT
                                !.pc = "raised",
                                !.error = IF resp.kind = "timeout" THEN "Timeout"
                                          ELSE "GitHub API error "
                                               \o ToString(resp.status)]
    /\ UNCHANGED <<varsParse, varsWalk, varsHeur, varsAn>>

\* return {"created": created}
PubReturn ==
    /\ pub.pc = "loop"
    /\ pub.i > Len(Batch(pub.issues))
    /\ pub' = [pub EXCEPT !.pc = "returned"]
    /\ UNCHANGED <<tracker, varsParse, varsWalk, varsHeur, varsAn>>

NextPub == PubParse \/ PubKeyError \/ PubCreate \/ PubReturn

SpecPub == InitPub /\ [][NextPub]_vars

(***************************************************************************)
(* call_ai_review.  The model collaborator is asked for output in strict   *)
(* json_schema format: what comes back is a failed call, text cut short    *)
(* (which json.loads rejects), or text that conforms to REVIEW_SCHEMA.     *)
(* The schema types title, evidence and fix as strings and bounds top_5 to *)
(* exactly five items; it puts no minimum length on a string.              *)
(***************************************************************************)
PyNone == [is_none |-> TRUE]

Review(top5) ==
    [is_none |-> FALSE,
     one_liner |-> "Needs tests and docs.",
     top_5 |-> top5,
     next_7_days_plan |-> <<"Add CI", "Write README">>]

FiveIssues == [i \in 1..5 |-> Issue(i)]

\* schema-conformant outputs: every field a string, severity in the enum
ConformantReviews ==
    {Review(FiveIssues),
     Review([FiveIssues EXCEPT ![1].title = ""]),
     Review([FiveIssues EXCEPT ![3].fix = ""])}

ModelAnswers ==
    {[kind |-> "api_error", text_ok |-> FALSE, value |-> PyNone,
      message |-> "Connection error."],
     [kind |-> "text", text_ok |-> FALSE, value |-> PyNone,
      message |-> "Unterminated string starting at: line 1 column 88 (char 87)"]}
    \cup {[kind |-> "text", text_ok |-> TRUE, value |-> v, message |-> ""] :
            v \in ConformantReviews}

\* the outcome of call_ai_review: the exception message it raises, or the
\* parsed output it returns
call_ai_review(key, answer) ==
    IF key = ""
    THEN [raised |-> TRUE, value |-> PyNone,
          message |-> "OPENAI_API_KEY missing. Put it in repodoctor/.env"]
    ELSE IF answer.kind = "api_error" \/ ~answer.text_ok
    THEN [raised |-> TRUE, value |-> PyNone, message |-> answer.message]
    ELSE [raised |-> FALSE, value |-> answer.value, message |-> ""]

(***************************************************************************)
(* analyze_repo, one record per request.  Requests are served concurrently *)
(* by the hosting layer; a request's steps are its blocking calls: the     *)
(* clone, the walk with the heuristics, the review, and the finally block. *)
(***************************************************************************)
Reqs == {"r1", "r2"}

AnalyzeUrls == {"https://github.com/octo/hello",
                " https://github.com/octo/hello.git ",
                "https://github.com/octo",
                "https://gitlab.com/octo/hello"}

TmpDir == "/tmp"
TmpSuffixes == {"a1b2c3d4", "k9dist0x", "zq7w_e5r"}
TmpNames == {TmpDir \o "/repodoctor_" \o x : x \in TmpSuffixes}

\* what a shallow clone of a repository puts on disk
RepoTrees ==
    {<<Dir(".", <<".git", "src", "tests">>,
           <<File("README.md", 120), File("LICENSE", 30), File("setup.py", 50)>>),
       Dir(".git", <<>>, <<File("HEAD", 20), File("config", 90)>>),
       Dir("src", <<"build">>, <<File("app.py", 400)>>),
       Dir("src/build", <<>>, <<File("out.js", 900)>>),
       Dir("tests", <<>>, <<File("test_app.py", 200)>>)>>,
     <<Dir(".", <<".git", ".github">>, <<File("Dockerfile", 60), File("main.py", 10)>>),
       Dir(".git", <<>>, <<File("HEAD", 20)>>),
       Dir(".github", <<"workflows">>, <<>>),
       Dir(".github/workflows", <<>>, <<File("ci.yml", 70)>>)>>}

\* a repository can only be where the URL names an owner and a name
CanExist(repo_url) == Len(NonEmpty(Split(urlparse(repo_url).path, "/"))) >= 2

NoDir == [exists |-> FALSE, owner |-> None, tree |-> <<>>]

NewRequest ==
    [pc |-> "start", url |-> None, repo_url |-> None, tmp_root |-> None,
     dest |-> None, cloned |-> <<>>, files |-> <<>>, key_contents |-> <<>>,
     heur |-> [findings |-> <<>>, quickwins |-> <<>>, risks |-> <<>>],
     review |-> "none", raised |-> None, result |-> [kind |-> "none"]]

InFlight == {"clone", "walk", "review", "finally"}

InitAn ==
    /\ api_key \in {"", "sk-test"}
    /\ tmpfs = [t \in TmpNames |-> NoDir]
    /\ rq = [r \in Reqs |-> NewRequest]
    /\ IdleParse /\ IdleWalk /\ IdleHeur /\ IdlePub

Others == <<api_key, varsParse, varsWalk, varsHeur, varsPub>>

\* mkdtemp that takes any name, in use or not
MkdtempNames_any(fs) == TmpNames

\* tempfile.mkdtemp(prefix="repodoctor_"): a name that does not exist yet
MkdtempNames(fs) == {t \in TmpNames : ~fs[t].exists}

\* the request arrives with a URL that fails the prefix test
Reject(r) ==
    /\ rq[r].pc = "start"
    /\ \E url \in AnalyzeUrls :
          /\ ~StartsWith(Strip(url), "https://github.com/")
          /\ rq' = [rq EXCEPT ![r].pc = "done", ![r].url = url,
                               ![r].repo_url = Strip(url),
                               ![r].result = [kind |-> "error",
                                              error |-> "Invalid GitHub repo URL"]]
    /\ UNCHANGED <<tmpfs, Others>>

\* the request arrives with a URL that passes: scratch directory and dest
Begin(r) ==
    /\ rq[r].pc = "start"
    /\ \E url \in AnalyzeUrls, t \in MkdtempNames(tmpfs) :
          /\ StartsWith(Strip(url), "https://github.com/")
          /\ tmpfs' = [tmpfs EXCEPT ![t] = [exists |-> TRUE, owner |-> r,
                                            tree |-> <<>>]]
          /\ rq' = [rq EXCEPT ![r].pc = "clone", ![r].url = url,
                               ![r].repo_url = Strip(url),
                               ![r].tmp_root = t,
                               ![r].dest = t \o "/" \o safe_repo_name(Strip(url))]
    /\ UNCHANGED Others

\* Repo.clone_from succeeds: the checkout is on disk under the scratch name
Clone(r) ==
    /\ rq[r].pc = "clone"
    /\ CanExist(rq[r].repo_url)
    /\ \E tree \in RepoTrees :
          /\ tmpfs' = [tmpfs EXCEPT ![rq[r].tmp_root] =
                          [exists |-> TRUE, owner |-> r, tree |-> tree]]
          /\ rq' = [rq EXCEPT ![r].pc = "walk", ![r].cloned = tree]
    /\ UNCHANGED Others

\* Repo.clone_from raises: not found, no access, no network
CloneFails(r) ==
    /\ rq[r].pc = "clone"
    /\ rq' = [rq EXCEPT ![r].pc = "finally",
                         ![r].raised = "GitCommandError: git clone failed"]
    /\ UNCHANGED <<tmpfs, Others>>

\* walk_repo_summary(dest), then basic_heuristics
Walk(r) ==
    /\ rq[r].pc = "walk"
    /\ LET ev == walk_repo_summary(rq[r].dest, tmpfs[rq[r].tmp_root].tree,
                                   DefaultMaxFiles)
       IN  rq' = [rq EXCEPT ![r].pc = "review",
                            ![r].files = ev.files,
                            ![r].key_contents = ev.key_contents,
                            ![r].heur = basic_heuristics(ev.files, ev.key_contents)]
    /\ UNCHANGED <<tmpfs, Others>>

\* an exception no handler of the try block names (MemoryError, an
\* interrupt) is raised during the walk
Unexpected(r) ==
    /\ rq[r].pc = "walk"
    /\ rq' = [rq EXCEPT ![r].pc = "finally", ![r].raised = "MemoryError"]
    /\ UNCHANGED <<tmpfs, Others>>

\* the except branch leaving ai_error as None
AiError_dropped(outcome) == None

\* ai_error after the inner try: str(e) when the call raised
AiError(outcome) == IF outcome.raised THEN outcome.message ELSE None

\* the returned dict
Result(q, outcome) ==
    [kind |-> "analysis",
     repo_url |-> q.repo_url,
     summary |-> [file_count_sampled |-> Len(q.files),
                  key_files_found |-> KeysInOrder(q.key_contents, important)],
     findings |-> q.heur.findings,
     quick_wins |-> q.heur.quickwins,
     risks |-> q.heur.risks,
     next_steps |-> <<"Add CI + basic tests", "Document env vars and run steps",
                      "Add Docker", "Run a dependency security audit">>,
     debug |-> [openai_key_present |-> api_key # "",
                ai_error |-> AiError(outcome)],
     ai_review |-> IF outcome.raised THEN PyNone ELSE outcome.value]

\* the inner try around call_ai_review, and the return value
ReviewStep(r) ==
    /\ rq[r].pc = "review"
    /\ \E answer \in ModelAnswers :
          LET outcome == call_ai_review(api_key, answer)
          IN  rq' = [rq EXCEPT ![r].pc = "finally",
                               ![r].review = IF outcome.raised THEN "failed"
                                             ELSE "returned",
                               ![r].result = Result(rq[r], outcome)]
    /\ UNCHANGED <<tmpfs, Others>>

\* rmtree only when the try block returned
AfterTry_success_only(fs, t, raised) ==
    IF raised = None THEN [fs EXCEPT ![t] = NoDir] ELSE fs

\* finally: shutil.rmtree(tmp_root, ignore_errors=True)
AfterTry(fs, t, raised) == [fs EXCEPT ![t] = NoDir]

\* the finally block, then the return or the exception leaves analyze_repo
Finally(r) ==
    /\ rq[r].pc = "finally"
    /\ tmpfs' = AfterTry(tmpfs, rq[r].tmp_root, rq[r].raised)
    /\ rq' = [rq EXCEPT ![r].pc = "done"]
    /\ UNCHANGED Others

Next ==
    \E r \in Reqs :
        \/ Reject(r)
        \/ Begin(r)
        \/ Clone(r)
        \/ CloneFails(r)
        \/ Walk(r)
        \/ Unexpected(r)
        \/ ReviewStep(r)
        \/ Finally(r)

Spec == InitAn /\ [][Next]_vars

(***************************************************************************)
(* Claims about the pure functions.                                        *)
(***************************************************************************)

\* the second segment as written, with one trailing ".git" taken off
NameOf(c) ==
    IF c.git /\ Len(c.segs) = 2 THEN c.segs[2]
    ELSE IF c.segs[2] = "x.git" THEN "x"
    ELSE c.segs[2]

\* C7 (as stated): parse_repo returns a pair exactly when the URL's host is
\* github.com and its path is exactly the two non-empty segments owner/name;
\* the pair is the owner and the name without a trailing ".git".
C7_ExactlyTwoSegments ==
    p_res.done =>
        LET accept == /\ p_in.scheme # ""
                      /\ Lower(p_in.host) = "github.com"
                      /\ Len(p_in.segs) = 2
        IN  /\ p_res.out.ok = accept
            /\ accept => /\ p_res.out.owner = p_in.segs[1]
                          /\ p_res.out.repo = NameOf(p_in)

\* C7 (amended): parse_repo returns a pair exactly when the URL's authority
\* (netloc) is github.com in any letter case and its path has at least two
\* non-empty segments; the pair is the first segment and the second segment
\* without a trailing ".git", so owner/repo, owner/repo/ and owner/repo.git
\* give the same pair; any other authority, or a path of fewer than two
\* segments, is rejected with an error.
C7_AtLeastTwoSegments ==
    p_res.done =>
        LET accept == /\ p_in.scheme # ""
                      /\ Lower(p_in.host) = "github.com"
                      /\ Len(p_in.segs) >= 2
        IN  /\ p_res.out.ok = accept
            /\ accept => /\ p_res.out.owner = p_in.segs[1]
                          /\ p_res.out.repo = NameOf(p_in)
            /\ ~accept => Len(p_res.out.error) > 0

\* a ".git" URL with a trailing slash and surrounding blanks has been parsed
C7_Witness ==
    /\ p_res.done /\ p_res.out.ok
    /\ p_in.segs = <<"octo", "hello">> /\ p_in.git /\ p_in.slash /\ p_in.pad = " "
    /\ p_res.out.repo = "hello"

AllowList == {"README.md", "LICENSE", ".env.example", "pyproject.toml",
              "requirements.txt", "Dockerfile", ".github", "SECURITY.md"}

\* C5: the evidence walk_repo_summary returns lists at most max_files files,
\* maps only allow-listed names, and maps each to the directory sentinel or to
\* text of at most 8000 characters.
C5_EvidenceBounded ==
    w_res.done =>
        /\ Len(w_res.out.files) <= w_in.max_files
        /\ DOMAIN w_res.out.key_contents \subseteq AllowList
        /\ \A n \in DOMAIN w_res.out.key_contents :
              \/ w_res.out.key_contents[n] = "DIRECTORY_PRESENT"
              \/ Len(w_res.out.key_contents[n]) <= 8000

\* a 12000-character key file was cut to the bound, beside a key directory,
\* and the listing was cut at max_files
C5_Witness ==
    /\ w_res.done
    /\ w_in.kind = 12000
    /\ "README.md" \in DOMAIN w_res.out.key_contents
    /\ Len(w_res.out.key_contents["README.md"]) = 8000
    /\ ".github" \in DOMAIN w_res.out.key_contents
    /\ w_res.out.key_contents[".github"] = "DIRECTORY_PRESENT"
    /\ w_in.max_files = 2
    /\ Len(w_res.out.files) = 2
    /\ Len(w_in.tree[1].files) > 2

\* the entry a key file's absence adds, if any
EntryOf(name) ==
    IF name = "README.md" THEN "Add a README.md with setup and usage instructions."
    ELSE IF name = ".env.example" THEN "Add a .env.example for environment variables."
    ELSE IF name = "Dockerfile" THEN "Add a Dockerfile for reproducible builds."
    ELSE IF name = "LICENSE" THEN "No LICENSE file found."
    ELSE "(no entry)"

RECURSIVE Without(_, _)
Without(seq, e) ==
    IF seq = <<>> THEN <<>>
    ELSE (IF Head(seq) = e THEN <<>> ELSE <<Head(seq)>>) \o Without(Tail(seq), e)

Entries(o) == Len(o.findings) + Len(o.quickwins) + Len(o.risks)

\* C8: for two evidence sets with the same listing whose key files differ in
\* one allow-listed name, the outputs of basic_heuristics differ in at most the
\* one entry tied to that name; all other entries are in both, in the same order.
C8_RulesIndependent ==
    h_res.done =>
        LET e == EntryOf(h_in.name)
        IN  /\ Without(h_res.a.findings, e) = Without(h_res.b.findings, e)
            /\ Without(h_res.a.quickwins, e) = Without(h_res.b.quickwins, e)
            /\ Without(h_res.a.risks, e) = Without(h_res.b.risks, e)
            /\ Entries(h_res.a) - Entries(h_res.b) \in {-1, 0, 1}

\* .env.example was toggled between two evidence sets without a Dockerfile:
\* the .env.example entry changed and the Dockerfile entry stayed
C8_Witness ==
    /\ h_res.done
    /\ h_in.name = ".env.example"
    /\ h_res.a.quickwins # h_res.b.quickwins
    /\ \E i \in 1..Len(h_res.a.quickwins) :
          h_res.a.quickwins[i] = "Add a Dockerfile for reproducible builds."
    /\ Len(h_res.a.risks) = 2
    /\ Len(h_res.a.findings) = 1

Succeeded(call) == call.answer.kind = "response" /\ call.answer.status < 400

\* C6: the creation calls the tracker receives are, in order, the first issues
\* of the request: never more than 5, none after a call that failed, and every
\* issue created before a failure stays on the tracker.
C6_PrefixOfFirstFive ==
    LET calls == tracker.calls
    IN  /\ Len(calls) <= 5
        /\ Len(calls) <= Len(pub.issues)
        /\ \A k \in 1..Len(calls) :
              /\ calls[k].title = pub.issues[k]["title"]
              /\ calls[k].body = IssueBody(pub.issues[k])
              /\ k < Len(calls) => Succeeded(calls[k])
        /\ Len(tracker.issues) = Cardinality({k \in 1..Len(calls) : Succeeded(calls[k])})
        /\ \A k \in 1..Len(tracker.issues) : tracker.issues[k].title = calls[k].title
        /\ pub.pc = "returned" => Len(pub.created) = Min(5, Len(pub.issues))

\* seven issues were supplied, the third call failed, two issues stay created
C6_Witness ==
    /\ Len(pub.issues) = 7
    /\ pub.pc = "raised"
    /\ Len(tracker.calls) = 3
    /\ Len(tracker.issues) = 2

(***************************************************************************)
(* Claims about analyze_repo.                                              *)
(***************************************************************************)

\* C1: a request whose clone succeeded and whose review step failed returns
\* (it does not raise) a result with a null ai_review, a non-empty ai_error
\* string, and the findings, quick wins and risks basic_heuristics computes
\* for the evidence extracted from its checkout.
C1_ReviewFailureContained ==
    \A r \in Reqs :
        (rq[r].pc = "done" /\ rq[r].review = "failed") =>
            LET ev == walk_repo_summary(rq[r].dest, rq[r].cloned, 200)
                h == basic_heuristics(ev.files, ev.key_contents)
                res == rq[r].result
            IN  /\ rq[r].raised = None
                /\ res.kind = "analysis"
                /\ res.ai_review.is_none
                /\ res.debug.ai_error # None
                /\ Len(res.debug.ai_error) > 0
                /\ res.findings = h.findings
                /\ res.quick_wins = h.quickwins
                /\ res.risks = h.risks

\* a request has returned after its review failed, with heuristic entries
C1_Witness ==
    \E r \in Reqs :
        /\ rq[r].pc = "done"
        /\ rq[r].review = "failed"
        /\ rq[r].cloned # <<>>
        /\ Len(rq[r].result.quick_wins) > 0
        /\ api_key # ""

\* C2: once a request that created a scratch directory has returned or
\* raised, that directory is gone: whatever exists under its name belongs to
\* a later request.
C2_ScratchRemoved ==
    \A r \in Reqs :
        (rq[r].pc = "done" /\ rq[r].tmp_root # None) =>
            \/ ~tmpfs[rq[r].tmp_root].exists
            \/ tmpfs[rq[r].tmp_root].owner # r

\* every exit path has been taken by some request: a clone failure, an
\* unexpected exception, a caught review failure, a success
C2_Witness ==
    /\ \A r \in Reqs : rq[r].pc = "done" /\ rq[r].tmp_root # None
    /\ \E r \in Reqs : rq[r].raised # None /\ rq[r].cloned = <<>>
    /\ \E r \in Reqs : rq[r].raised = "MemoryError"

\* the other two exit paths: a caught review failure and a success
C2_WitnessReturned ==
    /\ \A r \in Reqs : rq[r].pc = "done" /\ rq[r].tmp_root # None
    /\ \E r \in Reqs : rq[r].review = "failed"
    /\ \E r \in Reqs : rq[r].review = "returned"

WellShaped(review) ==
    /\ Len(review.top_5) = 5
    /\ \A i \in 1..Len(review.top_5) :
          /\ Len(review.top_5[i].title) > 0
          /\ Len(review.top_5[i].evidence) > 0
          /\ Len(review.top_5[i].fix) > 0
          /\ review.top_5[i].severity \in {"critical", "high", "medium", "low"}

\* C3: a non-null ai_review in a result has exactly 5 issues in top_5, each
\* with non-empty title, evidence and fix and a severity of the enumeration.
C3_ReviewWellShaped ==
    \A r \in Reqs :
        (rq[r].result.kind = "analysis" /\ ~rq[r].result.ai_review.is_none) =>
            WellShaped(rq[r].result.ai_review)

\* the host is not github.com, or the path has no owner/name
InvalidUrl(url) ==
    LET u == urlparse(Strip(url))
    IN  \/ Lower(u.netloc) # "github.com"
        \/ Len(NonEmpty(Split(u.path, "/"))) < 2

\* C4: a request with an invalid URL (wrong host, or a path that is not
\* owner/name) ends with a structured error result and raises nothing.
C4_InvalidUrlStructuredError ==
    \A r \in Reqs :
        (rq[r].pc = "done" /\ InvalidUrl(rq[r].url)) =>
            /\ rq[r].raised = None
            /\ rq[r].result.kind = "error"

\* C9: requests in flight hold distinct scratch directories; each one's
\* directory exists, was created by it, holds what it cloned and nothing
\* another request wrote, and its evidence was read from its own checkout.
C9_ScratchPartitioned ==
    /\ \A r1, r2 \in Reqs :
          (r1 # r2 /\ rq[r1].pc \in InFlight /\ rq[r2].pc \in InFlight) =>
              /\ rq[r1].tmp_root # rq[r2].tmp_root
              /\ rq[r1].dest # rq[r2].dest
    /\ \A r \in Reqs :
          rq[r].pc \in InFlight =>
              /\ tmpfs[rq[r].tmp_root].exists
              /\ tmpfs[rq[r].tmp_root].owner = r
              /\ tmpfs[rq[r].tmp_root].tree = rq[r].cloned
    /\ \A r \in Reqs :
          rq[r].pc \in {"review", "finally", "done"} /\ rq[r].cloned # <<>>
          /\ rq[r].raised = None =>
              rq[r].files = walk_repo_summary(rq[r].dest, rq[r].cloned, 200).files

\* two requests for the same repository are in flight, both past the clone,
\* with different checkouts
C9_Witness ==
    /\ rq["r1"].pc = "review" /\ rq["r2"].pc = "finally"
    /\ rq["r1"].repo_url = rq["r2"].repo_url
    /\ rq["r1"].cloned # rq["r2"].cloned
    /\ rq["r2"].cloned # <<>>

NoiseNames == {".git", "node_modules", "__pycache__", ".venv", "dist", "build"}

\* the files of a tree whose directory path below the root contains no
\* noise-directory name
Listable(tree) ==
    UNION {{tree[i].rel \o "/" \o tree[i].files[j].name : j \in 1..Len(tree[i].files)} :
            i \in {k \in 1..Len(tree) : \A n \in NoiseNames : ~Contains(tree[k].rel, n)}}

\* C10: after the walk of a checkout, every file whose directory path below
\* the checkout root contains no noise-directory name is in the file listing
\* (the checkouts here are below the cap), whatever the repository is called
\* and whatever name the scratch directory got.
C10_ListingIndependentOfNames ==
    \A r \in Reqs :
        (rq[r].pc \in {"review", "finally", "done"} /\ rq[r].cloned # <<>>
         /\ rq[r].raised = None) =>
            Listable(rq[r].cloned) \subseteq SeqRange(rq[r].files)

====
